---- MODULE Spec2Model ----
(***************************************************************************)
(* A model of scripts/analyzer.py (class Analyzer): the 1/3-octave band    *)
(* grouping recurrence, the search for the frame of greatest energy, and   *)
(* the life cycle of an Analyzer instance (construction, then per-file     *)
(* run calls).                                                             *)
(*                                                                         *)
(* Numeric primitives the class borrows from numpy/scipy (FFT, window,     *)
(* A-weighting filter, log10) are not computed.  A spectrum is kept as a   *)
(* sparse set of spectral lines, a signal as silence plus a few clicks, so *)
(* the real sizes (65536-sample blocks, 48 kHz) are kept unscaled.         *)
(***************************************************************************)
EXTENDS Integers, Sequences, FiniteSets, TLC

VARIABLES
    \* ---- Analyzer.one_third_octaves (locals of the call) ----
    oto_x,        \* the frame handed in: [n, fs, tones]
    idx,          \* number of bands already summed (loop index of line 128)
    step,         \* line 123
    nbins,        \* line 124
    start_bin,    \* line 125
    stop_bin,     \* line 126
    energy,       \* line 122, one entry per band summed
    ranges,       \* history: the slice bounds used by line 129, per band
    oto_pc,       \* "idle" | "loop" | "done"
    \* ---- Analyzer.find_greatest_energy (arguments and locals of the call) ----
    data,         \* the samples: [len, clicks], silence but for the clicks
    frame_size,   \* the argument frame_size
    rmse,         \* line 213, one entry per frame scanned
    frame_idx,    \* the value returned by line 219
    fge_pc,       \* "idle" | "loop" | "done"
    \* ---- an Analyzer instance and the run calls made on it ----
    phase,        \* "off" | "new" (before __init__) | "ready" | "failed"
    args,         \* the arguments of __init__
    self,         \* the instance attributes
    ctor_err,     \* the exception __init__ ended with, or NoError
    built,        \* history: <<cal, cal_target, amb_analysis>> when __init__ returned
    task          \* per caller: the position and locals of its run call

oto_vars == <<oto_x, idx, step, nbins, start_bin, stop_bin, energy, ranges, oto_pc>>

fge_vars == <<data, frame_size, rmse, frame_idx, fge_pc>>

an_vars == <<phase, args, self, ctor_err, built, task>>

vars == <<oto_vars, fge_vars, an_vars>>

(***************************************************************************)
(* Small helpers                                                           *)
(***************************************************************************)
Min(a, b) == IF a < b THEN a ELSE b

RECURSIVE Pow2(_)
Pow2(n) == IF n <= 0 THEN 1 ELSE 2 * Pow2(n - 1)

RECURSIVE SumOver(_, _)
\* sum of the magnitudes (second component) of a finite set of <<place, mag>>
SumOver(S, dummy) ==
    IF S = {} THEN 0
    ELSE LET e == CHOOSE e \in S : TRUE
         IN  e[2] + SumOver(S \ {e}, dummy)

(***************************************************************************)
(* Analyzer.one_third_octaves                                              *)
(***************************************************************************)
\* bounds of the inputs
MaxTone == 8            \* main tones are 250 Hz * (1..MaxTone)

\* program constants
NumBands    == 28       \* len(np.arange(10, 38))
FirstBand   == 10       \* np.arange(10, 38)[0]
InitStep    == 1
InitNbins   == 3
InitStart   == 13
block_size   == 65536    \* self.block_size
SampleRate  == 48000    \* the rate the frame lengths are commented for

\* bands[idx] of line 118
bands(i) == FirstBand + i

\* line 119: octaves = 2^((band-30)/3) * 1000.  Kept exactly as the cube of
\* the centre frequency in units of 1000 Hz, times 2^20: 2^(band-10).
NominalCube(b) == Pow2(b - FirstBand)

\* The frames the method is given: a main spectral line of magnitude 4 and
\* possibly a weaker one of magnitude 1.  n is x.shape[0].
ToneHz   == { 250 * k : k \in 1..MaxTone }
WeakHz   == { 0, 20, 3000 }
OtoFrames ==
    { [n |-> block_size, fs |-> SampleRate,
       tones |-> {<<f, 4>>} \cup (IF w = 0 THEN {} ELSE {<<w, 1>>})]
      : f \in ToneHz, w \in WeakHz }

\* FFT bin that holds frequency hz for a frame of n samples at rate fs
BinOf(hz, n, fs) == (hz * n) \div fs

\* lines 107-113: m = |fft(x*w)|[0 : n//2], kept as its nonzero lines
Magnitudes(x) ==
    [ n     |-> x.n \div 2,
      lines |-> { <<BinOf(t[1], x.n, x.fs), t[2]>> : t \in x.tones } ]

\* np.sum(m[a:b]) with Python's slice clipping at len(m)
SumSlice(m, a, b) ==
    SumOver({ l \in m.lines : a <= l[1] /\ l[1] < Min(b, m.n) }, 0)

\* a start that skips one bin, as in analyze.py's "start = stop + 1"
AdvanceStart_skip(s, nb) == s + nb + 1

\* line 130
AdvanceStart(s, nb) == s + nb

\* a widening that ignores the step
WidenBins_flat(nb, st) == nb + 1

\* line 131
WidenBins(nb, st) == nb + st

\* line 132
AdvanceStop(sp, nb) == sp + nb

\* the doubling test of analyze.py, "idx % 3 == 0"
NextStep_early(i, st) == IF i % 3 = 0 THEN st * 2 ELSE st

\* lines 133-134, for the band of loop index i
NextStep(i, st) == IF (i + 1) % 3 = 0 THEN st * 2 ELSE st

OtoStart ==
    /\ oto_x \in OtoFrames
    /\ idx = 0
    /\ step = InitStep
    /\ nbins = InitNbins
    /\ start_bin = InitStart
    /\ stop_bin = InitStart + InitNbins
    /\ energy = <<>>
    /\ ranges = <<>>
    /\ oto_pc = "loop"

\* one iteration of the loop of lines 128-134
OtoBand ==
    /\ oto_pc = "loop"
    /\ idx < NumBands
    /\ energy' = Append(energy, SumSlice(Magnitudes(oto_x), start_bin, stop_bin))
    /\ ranges' = Append(ranges, <<start_bin, stop_bin>>)
    /\ start_bin' = AdvanceStart(start_bin, nbins)
    /\ nbins' = WidenBins(nbins, step)
    /\ stop_bin' = AdvanceStop(stop_bin, nbins')
    /\ step' = NextStep(idx, step)
    /\ idx' = idx + 1
    /\ UNCHANGED <<oto_x, oto_pc, fge_vars, an_vars>>

\* line 136
OtoReturn ==
    /\ oto_pc = "loop"
    /\ idx = NumBands
    /\ oto_pc' = "done"
    /\ UNCHANGED <<oto_x, idx, step, nbins, start_bin, stop_bin, energy, ranges>>
    /\ UNCHANGED <<fge_vars, an_vars>>

\* the method is not running
OtoIdle ==
    /\ oto_x = [n |-> 0, fs |-> 0, tones |-> {}]
    /\ idx = 0
    /\ step = 0
    /\ nbins = 0
    /\ start_bin = 0
    /\ stop_bin = 0
    /\ energy = <<>>
    /\ ranges = <<>>
    /\ oto_pc = "idle"

(***************************************************************************)
(* Analyzer.find_greatest_energy                                           *)
(***************************************************************************)
\* bounds of the inputs
MaxQuarters == 4        \* signal lengths are 65536 + q*16384 + e, q in 0..MaxQuarters
MaxExtra    == 1        \* ... and e in 0..MaxExtra

\* program constants
FastFrame   == 8192     \* calibrate, response_time "fast"
SlowFrame   == 65536    \* calibrate, response_time "slow"

QuarterBlock == block_size \div 4

SignalLens ==
    { block_size + q * QuarterBlock + e : q \in 0..MaxQuarters, e \in 0..MaxExtra }

\* places a click may sit in a signal of n samples
ClickPlaces(n) == { 0, QuarterBlock, 40000, n - QuarterBlock, n - 1 }

\* Audio samples: silence, one click of amplitude 1, or that click and a
\* second one of amplitude -1 or 2 (in units of the smallest amplitude).
Signals ==
    { [len |-> n, clicks |-> {}] : n \in SignalLens }
    \cup
    UNION { { [len |-> n, clicks |-> {<<p, 1>>}] : p \in {0, 40000, n - 1} }
            : n \in SignalLens }
    \cup
    UNION { { [len |-> n, clicks |-> {<<n - 1, 1>>, <<p, a>>}]
                : p \in ClickPlaces(n) \ {n - 1}, a \in {-1, 2} }
            : n \in SignalLens }

\* line 211: int((1/4) * frame_size)
HopSize(N) == N \div 4

\* line 212
NumFrames(n, N) == (n \div N) * 4

\* the number of samples of the slice data[a : a+N] (Python clips at len)
SliceLen(d, a, N) == IF a >= d.len THEN 0 ELSE Min(a + N, d.len) - a

\* np.sum(np.power(x, 2)) for x = data[a : a+N]
SumSquares(d, a, N) ==
    SumOver({ <<c[1], c[2] * c[2]>> : c \in { c \in d.clicks : a <= c[1] /\ c[1] < Min(a + N, d.len) } }, 0)

\* lines 215-216 for frame number k (from 0).  frame_rmse is
\* sqrt((1/frame_size) * sum); the radicand times frame_size is kept, which
\* orders the frames of one call as frame_rmse does.
FrameRmse(d, N, k) == SumSquares(d, HopSize(N) * k, N)

\* an argmax that keeps the last of several equal maxima
ArgMax_last(r) ==
    (CHOOSE i \in 1..Len(r) :
        /\ \A j \in 1..Len(r) : r[j] <= r[i]
        /\ \A j \in (i + 1)..Len(r) : r[j] < r[i]) - 1

\* np.argmax over a non-empty list: the first index (from 0) of the maximum
ArgMax(r) ==
    (CHOOSE i \in 1..Len(r) :
        /\ \A j \in 1..Len(r) : r[j] <= r[i]
        /\ \A j \in 1..(i - 1) : r[j] < r[i]) - 1

\* lines 211-219 as a function of the arguments
find_greatest_energy(d, N) ==
    HopSize(N) * ArgMax([ k \in 1..NumFrames(d.len, N) |-> FrameRmse(d, N, k - 1) ])

FgeStart ==
    /\ data \in Signals
    /\ frame_size \in {FastFrame, block_size}
    /\ rmse = <<>>
    /\ frame_idx = -1
    /\ fge_pc = "loop"

\* the method is not running
FgeIdle ==
    /\ data = [len |-> 0, clicks |-> {}]
    /\ frame_size = 0
    /\ rmse = <<>>
    /\ frame_idx = -1
    /\ fge_pc = "idle"

\* one iteration of the loop of lines 214-217
FgeFrame ==
    /\ fge_pc = "loop"
    /\ Len(rmse) < NumFrames(data.len, frame_size)
    /\ rmse' = Append(rmse, FrameRmse(data, frame_size, Len(rmse)))
    /\ UNCHANGED <<data, frame_size, frame_idx, fge_pc, oto_vars, an_vars>>

\* line 219
FgeReturn ==
    /\ fge_pc = "loop"
    /\ Len(rmse) = NumFrames(data.len, frame_size)
    /\ frame_idx' = HopSize(frame_size) * ArgMax(rmse)
    /\ fge_pc' = "done"
    /\ UNCHANGED <<data, frame_size, rmse, oto_vars, an_vars>>

(***************************************************************************)
(* The Analyzer instance: __init__, calibrate, load, validate_audio,       *)
(* analyze, get_test_details, run, generate_plots                          *)
(***************************************************************************)
Unset   == "unset"      \* an attribute not assigned yet
NoError == [type |-> "none", msg |-> "", line |-> 0]

Raise(ty, m, ln) == [type |-> ty, msg |-> m, line |-> ln]

\* int(token) succeeds on these tokens, with these values
IntOf == [ tok \in {"1", "2", "3", "94"} |->
             CASE tok = "1" -> 1 [] tok = "2" -> 2 [] tok = "3" -> 3 [] tok = "94" -> 94 ]

IsIntToken(tok) == tok \in DOMAIN IntOf

\* A .wav file: the tokens of os.path.basename(f).replace(".wav", "").split("_")
\* and what sf.read returns for it (x.shape[0], fs, x.ndim, the samples).
Wav(tokens, n, rate, nd, cl) ==
    [tokens |-> tokens, len |-> n, fs |-> rate, ndim |-> nd, clicks |-> cl]

CalFiles ==
    { Wav(<<"cal", "94", "dBA">>, block_size, SampleRate, 1, {<<0, 1>>}),
      Wav(<<"cal", "94", "dBA">>, block_size + 1, SampleRate, 1, {<<block_size, 1>>}),
      Wav(<<"cal", "94", "dBA">>, block_size - 1, SampleRate, 1, {<<0, 1>>}),
      Wav(<<"cal">>, block_size, SampleRate, 1, {<<0, 1>>}) }

AmbFiles ==
    { Wav(<<"amb">>, block_size, SampleRate, 1, {}),
      Wav(<<"amb">>, block_size, SampleRate, 2, {}) }

CalTypes == {"fast", "slow", "mean"}

TestAudio ==
    { <<n, r, nd, {}>> : n \in {block_size - 1, block_size}, r \in {SampleRate, 44100}, nd \in {1, 2} }
    \cup { <<block_size + 1, SampleRate, 1, {<<block_size, 1>>}>> }

TestFiles ==
    { Wav(nm, a[1], a[2], a[3], a[4]) :
        nm \in { <<"10", "0101", "1">>, <<"30", "0101", "2">> }, a \in TestAudio }
    \cup
    { Wav(nm, block_size, SampleRate, 1, {}) :
        nm \in { <<"stat", "0101">>, <<"rev", "0101", "x">>, <<"50", "0101", "3">> } }

Tasks == {"t1", "t2"}

\* the keys of test_names, lines 42-48
test_names == {"30", "20", "10", "stat", "rev"}

\* json.load(open("sound_level_reqs.json")), line 66: per test type the
\* per-band thresholds and the two-band threshold, named by their type
Slr == [ ty \in test_names |->
           [bands |-> <<"1/3 octave bands", ty>>, two |-> <<"two band spec", ty>>] ]

\* ---- validate_audio, lines 430-439 ----
validate_audio(s, w) ==
    IF w.len < s.block_size
      THEN Raise("RuntimeError", "Invalid length", 431)
    ELSE IF w.fs # s.cal_fs
      THEN Raise("RuntimeError", "Invalid sampling rate", 434)
    ELSE IF w.ndim > 1
      THEN Raise("RuntimeError", "Invalid channel count", 437)
    ELSE NoError

\* ---- load, lines 83-87: what it raises; it assigns no attribute ----
load(s, w) == validate_audio(s, w)

\* the samples of a file, as find_greatest_energy takes them
Samples(w) == [len |-> w.len, clicks |-> w.clicks]

\* ---- analyze, lines 242-268: [err, value] ----
analyze(s, w) ==
    LET e == load(s, w)
        N == s.block_size
        i == find_greatest_energy(Samples(w), N)
    IN  IF e # NoError
          THEN [err |-> e, value |-> Unset]
          ELSE [err |-> NoError,
                value |-> [audio     |-> [of |-> w.tokens, from |-> i,
                                          n |-> SliceLen(Samples(w), i, N)],
                           energy    |-> [of |-> w.tokens, frame |-> i,
                                          cal_target |-> s.cal_target, cal |-> s.cal],
                           frame_idx |-> i]]

\* ---- calibrate, lines 158-188: [err, self, value] ----
\* lines 160-165
FrameLenFor(response_time) ==
    CASE response_time = "fast" -> FastFrame
      [] response_time = "slow" -> SlowFrame
      [] OTHER -> 0

calibrate(s, response_time) ==
    LET d  == s.cal_file.tokens
        s1 == [s EXCEPT !.cal_target = IntOf[d[2]]]
        N  == FrameLenFor(response_time)
        e  == load(s1, s.cal_file)
        s2 == [s1 EXCEPT !.cal_audio = [from |-> 0, n |-> s.cal_file.len],
                         !.fs = s.cal_file.fs]
        i  == find_greatest_energy(Samples(s.cal_file), N)
        n  == SliceLen(Samples(s.cal_file), i, N)
        s3 == [s2 EXCEPT !.cal_audio = [from |-> i, n |-> n]]
    IN  IF Len(d) < 2
          THEN [err |-> Raise("IndexError", "list index out of range", 158),
                self |-> s, value |-> Unset]
        ELSE IF ~IsIntToken(d[2])
          THEN [err |-> Raise("ValueError", "invalid literal for int()", 158),
                self |-> s, value |-> Unset]
        ELSE IF response_time \notin {"fast", "slow"}
          THEN [err |-> Raise("ValueError", "Invalid response time", 165),
                self |-> s1, value |-> Unset]
        ELSE IF e # NoError
          THEN [err |-> e, self |-> s1, value |-> Unset]
        ELSE IF n # N      \* line 178: cal_a * w with arrays of n and N samples
          THEN [err |-> Raise("ValueError", "operands could not be broadcast together", 178),
                self |-> s3, value |-> Unset]
        ELSE [err |-> NoError, self |-> s3,
              value |-> [of |-> d, N |-> N, frame |-> i]]

\* the response time __init__ hands to calibrate: none, so the default of line 138
CtorResponseTime(a) == "fast"

\* ---- __init__, lines 53-66: [err, self] ----
construct(a) ==
    LET s0 == [cal_file |-> a.cal_file, cal_fs |-> a.cal_fs, cal_type |-> a.cal_type,
               amb_file |-> a.amb_file, block_size |-> block_size,
               cal |-> Unset, cal_target |-> Unset, cal_audio |-> Unset, fs |-> Unset,
               amb_analysis |-> Unset, slr |-> Unset,
               band_specs |-> Unset, two_band_spec |-> Unset]
        c  == calibrate(s0, CtorResponseTime(a))
        s1 == [c.self EXCEPT !.cal = c.value]
        m  == analyze(s1, a.amb_file)
        s2 == [s1 EXCEPT !.amb_analysis = m.value]
        s3 == [s2 EXCEPT !.slr = Slr]
    IN  IF c.err # NoError THEN [err |-> c.err, self |-> c.self]
        ELSE IF m.err # NoError THEN [err |-> m.err, self |-> s1]
        ELSE [err |-> NoError, self |-> s3]

\* ---- get_test_details, lines 399-410: [err, value, printed] ----
get_test_details(w) ==
    LET d == w.tokens
    IN  IF Len(d) >= 3 /\ IsIntToken(d[3])
          THEN [err |-> NoError, printed |-> "",
                value |-> [type |-> d[1], date |-> d[2], num |-> IntOf[d[3]], file |-> d]]
          \* the except clause prints and falls through to "return test"
          \* with test never bound
          ELSE [err |-> Raise("UnboundLocalError",
                              "local variable 'test' referenced before assignment", 410),
                printed |-> "Failed to parse", value |-> Unset]

\* line 287 binds the result to a local of run: the instance is left as it is
StoreAnalysis_field(s, a) == [s EXCEPT !.amb_analysis = a]

StoreAnalysis(s, a) == s

IdleTask ==
    [pc |-> "idle", file |-> Unset, test |-> Unset, analysis |-> Unset,
     bars |-> Unset, plots |-> {}, err |-> NoError, printed |-> ""]

Finished(t) == task[t].pc \in {"idle", "done", "failed"}

AnOff ==
    /\ phase = "off"
    /\ args = Unset
    /\ self = Unset
    /\ ctor_err = NoError
    /\ built = Unset
    /\ task = [t \in Tasks |-> IdleTask]

AnStart ==
    /\ phase = "new"
    /\ args \in [cal_file : CalFiles, cal_fs : {SampleRate}, cal_type : CalTypes,
                 amb_file : AmbFiles]
    /\ self = Unset
    /\ ctor_err = NoError
    /\ built = Unset
    /\ task = [t \in Tasks |-> IdleTask]

\* Analyzer(...): the whole of __init__
Construct ==
    /\ phase = "new"
    /\ LET r == construct(args)
       IN  /\ self' = r.self
           /\ ctor_err' = r.err
           /\ phase' = IF r.err = NoError THEN "ready" ELSE "failed"
           /\ built' = IF r.err = NoError
                         THEN <<r.self.cal, r.self.cal_target, r.self.amb_analysis>>
                         ELSE Unset
    /\ UNCHANGED <<args, task, oto_vars, fge_vars>>

\* a caller enters run(audio_file)
Enter(t, w) ==
    /\ phase = "ready"
    /\ Finished(t)
    /\ task' = [task EXCEPT ![t] = [IdleTask EXCEPT !.pc = "details", !.file = w]]
    /\ UNCHANGED <<phase, args, self, ctor_err, built, oto_vars, fge_vars>>

\* the calls of a batch follow one another
StartRun(t, w) ==
    /\ \A u \in Tasks : Finished(u)
    /\ Enter(t, w)

\* the calls of a batch run as parallel tasks
StartRunParallel(t, w) == Enter(t, w)

Fail(t, e) == [task EXCEPT ![t].pc = "failed", ![t].err = e]

\* line 280
RunGetDetails(t) ==
    /\ task[t].pc = "details"
    /\ LET r == get_test_details(task[t].file)
       IN  task' = IF r.err # NoError
                     THEN [Fail(t, r.err) EXCEPT ![t].printed = r.printed]
                     ELSE [task EXCEPT ![t].pc = "band_specs", ![t].test = r.value]
    /\ UNCHANGED <<phase, args, self, ctor_err, built, oto_vars, fge_vars>>

\* line 283
RunSetBandSpecs(t) ==
    /\ task[t].pc = "band_specs"
    /\ IF task[t].test.type \in DOMAIN self.slr
         THEN /\ self' = [self EXCEPT !.band_specs = self.slr[task[t].test.type].bands]
              /\ task' = [task EXCEPT ![t].pc = "two_band_spec"]
         ELSE /\ task' = Fail(t, Raise("KeyError", task[t].test.type, 283))
              /\ self' = self
    /\ UNCHANGED <<phase, args, ctor_err, built, oto_vars, fge_vars>>

\* line 284
RunSetTwoBandSpec(t) ==
    /\ task[t].pc = "two_band_spec"
    /\ self' = [self EXCEPT !.two_band_spec = self.slr[task[t].test.type].two]
    /\ task' = [task EXCEPT ![t].pc = "analyze"]
    /\ UNCHANGED <<phase, args, ctor_err, built, oto_vars, fge_vars>>

\* line 287
RunAnalyze(t) ==
    /\ task[t].pc = "analyze"
    /\ LET r == analyze(self, task[t].file)
       IN  /\ task' = IF r.err # NoError
                        THEN Fail(t, r.err)
                        ELSE [task EXCEPT ![t].pc = "plot_j_bars", ![t].analysis = r.value]
           /\ self' = IF r.err # NoError THEN self ELSE StoreAnalysis(self, r.value)
    /\ UNCHANGED <<phase, args, ctor_err, built, oto_vars, fge_vars>>

\* the bars of one figure: lines 342-344 (and 360-362)
Bars(t) ==
    [measured |-> task[t].analysis.energy,
     spec     |-> self.band_specs,
     ambient  |-> self.amb_analysis.energy]

\* the figure saved by line 355 (and 374): the bars and the line of 349 (367)
Figure(t, kind) ==
    [kind |-> kind, file |-> task[t].test.file, type |-> task[t].test.type,
     bars |-> task[t].bars, two_band_spec |-> self.two_band_spec]

\* generate_plots, lines 342-344
PlotJointBars(t) ==
    /\ task[t].pc = "plot_j_bars"
    /\ task' = [task EXCEPT ![t].pc = "plot_j_save", ![t].bars = Bars(t)]
    /\ UNCHANGED <<phase, args, self, ctor_err, built, oto_vars, fge_vars>>

\* generate_plots, lines 349-356
PlotJointSave(t) ==
    /\ task[t].pc = "plot_j_save"
    /\ task' = [task EXCEPT ![t].pc = "plot_f_bars",
                            ![t].plots = task[t].plots \cup {Figure(t, "_j")}]
    /\ UNCHANGED <<phase, args, self, ctor_err, built, oto_vars, fge_vars>>

\* generate_plots, lines 360-362
PlotFreqBars(t) ==
    /\ task[t].pc = "plot_f_bars"
    /\ task' = [task EXCEPT ![t].pc = "plot_f_save", ![t].bars = Bars(t)]
    /\ UNCHANGED <<phase, args, self, ctor_err, built, oto_vars, fge_vars>>

\* generate_plots, lines 367-375, and the return of run
PlotFreqSave(t) ==
    /\ task[t].pc = "plot_f_save"
    /\ task' = [task EXCEPT ![t].pc = "done",
                            ![t].plots = task[t].plots \cup {Figure(t, "_f")}]
    /\ UNCHANGED <<phase, args, self, ctor_err, built, oto_vars, fge_vars>>

RunStep(t) ==
    \/ RunGetDetails(t)
    \/ RunSetBandSpecs(t)
    \/ RunSetTwoBandSpec(t)
    \/ RunAnalyze(t)
    \/ PlotJointBars(t)
    \/ PlotJointSave(t)
    \/ PlotFreqBars(t)
    \/ PlotFreqSave(t)

(***************************************************************************)
(* Specifications                                                          *)
(***************************************************************************)
\* one_third_octaves on the frames of OtoFrames
OtoInit == OtoStart /\ FgeIdle /\ AnOff

OtoNext == OtoBand \/ OtoReturn

SpecBands == OtoInit /\ [][OtoNext]_vars

\* find_greatest_energy on the signals of Signals
FgeInit == FgeStart /\ OtoIdle /\ AnOff

FgeNext == FgeFrame \/ FgeReturn

SpecFrames == FgeInit /\ [][FgeNext]_vars

\* an Analyzer is built and run is called on it, one file after another
Init == AnStart /\ OtoIdle /\ FgeIdle

Next ==
    \/ Construct
    \/ \E t \in Tasks, w \in TestFiles : StartRun(t, w)
    \/ \E t \in Tasks : RunStep(t)

Spec == Init /\ [][Next]_vars

\* the same, with the run calls of a batch interleaved as parallel tasks
NextParallel ==
    \/ Construct
    \/ \E t \in Tasks, w \in TestFiles : StartRunParallel(t, w)
    \/ \E t \in Tasks : RunStep(t)

SpecParallel == Init /\ [][NextParallel]_vars

(***************************************************************************)
(* Claims about one_third_octaves                                          *)
(***************************************************************************)
Abs(a) == IF a < 0 THEN 0 - a ELSE a

FirstSix == << <<13, 16>>, <<16, 20>>, <<20, 25>>, <<25, 31>>, <<31, 39>>, <<39, 49>> >>

\* sum of the spectral lines whose bin lies in lo..hi-1
LinesIn(x, lo, hi) ==
    SumOver({ t \in x.tones : BinOf(t[1], x.n, x.fs) \in lo..(hi - 1) }, 0)

\* C1: the first six bands sum the magnitudes of exactly the bins [13,16),
\* [16,20), [20,25), [25,31), [31,39), [39,49) (widths 3,4,5,6,8,10); the step
\* is 1 up to band 2, 2 right after band 2, and doubles after every band whose
\* index mod 3 is 2.
C1_FirstSixBands ==
    /\ \A k \in 1..Min(Len(ranges), 6) :
          /\ ranges[k] = FirstSix[k]
          /\ energy[k] = LinesIn(oto_x, FirstSix[k][1], FirstSix[k][2])
    /\ step = Pow2(idx \div 3)
    /\ (idx = 3 => step = 2)

C1_Witness ==
    /\ Len(ranges) >= 6
    /\ step = 4
    /\ energy[4] > 0

\* C2: the 28 bin ranges are contiguous (each band ends where the next one
\* starts), their starts strictly increase, the widths never decrease, and
\* the loop ends with 28 of them.
C2_Contiguous ==
    /\ \A k \in 1..(Len(ranges) - 1) :
          /\ ranges[k][2] = ranges[k + 1][1]
          /\ ranges[k][1] < ranges[k + 1][1]
          /\ ranges[k][2] - ranges[k][1] <= ranges[k + 1][2] - ranges[k + 1][1]
    /\ \A k \in 1..Len(ranges) : ranges[k][1] < ranges[k][2]
    /\ (oto_pc = "done" => Len(ranges) = NumBands)

C2_Witness ==
    /\ oto_pc = "done"
    /\ Len(ranges) = 28
    /\ ranges[28][1] = ranges[27][2]

\* the band whose nominal centre is closest to 1000 Hz
ClosestTo1k ==
    CHOOSE b \in FirstBand..(FirstBand + NumBands - 1) :
        \A c \in FirstBand..(FirstBand + NumBands - 1) :
            Abs(NominalCube(b) - Pow2(20)) <= Abs(NominalCube(c) - Pow2(20))

IsSine1k(x) == x.n = 65536 /\ x.fs = 48000 /\ <<1000, 4>> \in x.tones

\* C9: for a 65536-sample frame at 48 kHz whose main line is a 1 kHz sine,
\* the bin of 1000 Hz is 1365, it lies in the range of band index 20 (ANSI
\* band 30, the band nominally closest to 1000 Hz) and of no other band, and
\* that band's energy is strictly the greatest.
C9_Sine1kBand ==
    (oto_pc = "done" /\ IsSine1k(oto_x)) =>
        /\ BinOf(1000, oto_x.n, oto_x.fs) = 1365
        /\ { k \in 1..Len(ranges) : ranges[k][1] <= 1365 /\ 1365 < ranges[k][2] } = {21}
        /\ bands(20) = 30
        /\ ClosestTo1k = bands(20)
        /\ \A j \in 1..Len(energy) : j # 21 => energy[21] > energy[j]

C9_Witness ==
    /\ oto_pc = "done"
    /\ IsSine1k(oto_x)
    /\ energy[21] >= 4

(***************************************************************************)
(* Claims about find_greatest_energy                                       *)
(***************************************************************************)
\* the offset of frame k (from 0)
FrameOffset(k) == HopSize(frame_size) * k

\* the number of samples frame k holds
FrameCount(k) == SliceLen(data, FrameOffset(k), frame_size)

\* mean of the squared samples of frame a >= (resp. >) that of frame b,
\* compared as fractions: sum_a / count_a against sum_b / count_b
MeanSqGeq(a, b) == rmse[a + 1] * FrameCount(b) >= rmse[b + 1] * FrameCount(a)

MeanSqGt(a, b) == rmse[a + 1] * FrameCount(b) > rmse[b + 1] * FrameCount(a)

\* C3: for a signal of length len >= N the scan covers floor(len/N)*4 frames
\* at offsets k*(N/4), and the value returned is N/4 times the index of the
\* first frame whose RMS, the root of the mean of the squared samples over
\* that frame, is the greatest.
C3_FirstGreatestRms ==
    (fge_pc = "done" /\ data.len >= frame_size) =>
        /\ Len(rmse) = (data.len \div frame_size) * 4
        /\ \E k \in 0..(Len(rmse) - 1) :
              /\ frame_idx = (frame_size \div 4) * k
              /\ \A j \in 0..(Len(rmse) - 1) : MeanSqGeq(k, j)
              /\ \A j \in 0..(k - 1) : MeanSqGt(k, j)

\* C10: for a signal that passes validation (len >= 65536) the offset o
\* returned satisfies 0 <= o and o + N <= len, so signal[o:o+N] has N samples.
C10_FrameInsideSignal ==
    (fge_pc = "done" /\ data.len >= block_size) =>
        /\ 0 <= frame_idx
        /\ frame_idx + frame_size <= data.len
        /\ SliceLen(data, frame_idx, frame_size) = frame_size

\* C3 (amended): for a signal of length len >= N the scan covers
\* floor(len/N)*4 frames at offsets k*(N/4); each frame is scored by the sum
\* of the squares of the samples its slice holds, divided by N whatever the
\* number of samples the slice holds (a frame running past the end of the
\* signal counts as padded with zeros); the value returned is N/4 times the
\* index of the first frame with the greatest score.
C3_FirstGreatestScore ==
    (fge_pc = "done" /\ data.len >= frame_size) =>
        /\ Len(rmse) = (data.len \div frame_size) * 4
        /\ \E k \in 0..(Len(rmse) - 1) :
              /\ frame_idx = (frame_size \div 4) * k
              /\ \A j \in 0..(Len(rmse) - 1) :
                    SumSquares(data, FrameOffset(j), frame_size)
                        <= SumSquares(data, FrameOffset(k), frame_size)
              /\ \A j \in 0..(k - 1) :
                    SumSquares(data, FrameOffset(j), frame_size)
                        < SumSquares(data, FrameOffset(k), frame_size)

\* a scan that ended on a tie between the frame returned and a later frame
\* that runs past the end of the signal
C3_Witness ==
    /\ fge_pc = "done"
    /\ data.len >= frame_size
    /\ \E k \in 0..(Len(rmse) - 1) :
          /\ frame_idx = HopSize(frame_size) * k
          /\ rmse[k + 1] > 0
          /\ \E j \in (k + 1)..(Len(rmse) - 1) :
                rmse[j + 1] = rmse[k + 1] /\ FrameCount(j) < frame_size

(***************************************************************************)
(* Claims about the Analyzer instance                                      *)
(***************************************************************************)
\* the ways a file is malformed for validate_audio
Faults(w) ==
    (IF w.ndim > 1 THEN {"channels"} ELSE {})
    \cup (IF w.len < block_size THEN {"length"} ELSE {})
    \cup (IF w.fs # args.cal_fs THEN {"rate"} ELSE {})

FailedInValidate(t) ==
    task[t].pc = "failed" /\ task[t].err.line \in {431, 434, 437}

\* the kind of an exception is its class
ErrorKind(e) == e.type

GenericKinds == {"Exception", "RuntimeError"}

\* C4: validate_audio raises a distinct error kind per malformation: files
\* malformed in different single ways (channel count, length, sample rate)
\* end with different kinds, none of them a generic failure.
C4_DistinctErrorKinds ==
    \A t \in Tasks : FailedInValidate(t) =>
        /\ \A u \in Tasks :
              (/\ FailedInValidate(u)
               /\ Cardinality(Faults(task[t].file)) = 1
               /\ Cardinality(Faults(task[u].file)) = 1
               /\ Faults(task[t].file) # Faults(task[u].file))
              => ErrorKind(task[t].err) # ErrorKind(task[u].err)
        /\ ErrorKind(task[t].err) \notin GenericKinds

\* C5: every figure a run saves carries the per-band thresholds and the
\* two-band threshold of its own file's test type, however the run calls on
\* the one instance are interleaved.
C5_OwnThresholds ==
    \A t \in Tasks : \A f \in task[t].plots :
        /\ f.bars.spec = Slr[f.type].bands
        /\ f.two_band_spec = Slr[f.type].two

\* C6: once __init__ has returned, cal, cal_target and amb_analysis keep the
\* values they had then, through run calls that succeed and run calls that
\* fail.
C6_ReferenceDataKept ==
    phase = "ready" => <<self.cal, self.cal_target, self.amb_analysis>> = built

C6_Witness ==
    /\ phase = "ready"
    /\ \E t \in Tasks : task[t].pc = "done" /\ task[t].plots # {}
    /\ \E u \in Tasks : task[u].pc = "failed" /\ task[u].err.type = "RuntimeError"
    /\ self.cal_target = 94

\* a file name that does not follow {type}_{date}_{index}
NonConforming(w) == Len(w.tokens) < 3 \/ ~IsIntToken(w.tokens[3])

\* an exception that tells of the failed parse: the parse's own, or a
\* dedicated kind
ParseFailureKinds == {"MetadataParseFailure", "IndexError", "ValueError"}

\* C7: for a file whose name does not follow the convention, the call ends
\* with an explicit metadata-parse failure, with no record returned and no
\* analysis or figure made.
C7_ExplicitParseFailure ==
    \A t \in Tasks :
        (task[t].pc \notin {"idle", "details"} /\ NonConforming(task[t].file)) =>
            /\ task[t].pc = "failed"
            /\ task[t].plots = {}
            /\ ErrorKind(task[t].err) \in ParseFailureKinds

\* C8: the configured response mode selects the calibration frame length
\* (fast 8192, slow 65536), and a configured mode that is neither makes the
\* construction fail with the invalid-response-mode error, before any
\* calibration audio is loaded and with no calibration value.
C8_ConfiguredResponseMode ==
    /\ (phase = "ready" /\ args.cal_type = "fast") => self.cal.N = 8192
    /\ (phase = "ready" /\ args.cal_type = "slow") => self.cal.N = 65536
    /\ (phase \in {"ready", "failed"} /\ args.cal_type \notin {"fast", "slow"}) =>
          /\ phase = "failed"
          /\ ctor_err.type = "ValueError" /\ ctor_err.line = 165
          /\ self.cal_audio = Unset
          /\ self.cal = Unset

====
